---- MODULE Spec2Model ----
(***************************************************************************)
(* A model of revboss/go-notify: a schema registry, a double-layer JSON /   *)
(* base64 envelope codec and a polling receive loop on top of an SQS-like   *)
(* queue.  The repository holds two variants of the receive path: a         *)
(* synchronous one (src/unnamed/part_001) and a goroutine/channel one       *)
(* (src/unnamed/part_000).  AddSchema and Send are the same in both.        *)
(* The variable impl says which variant a behaviour runs.                   *)
(***************************************************************************)
EXTENDS Integers, Sequences, FiniteSets, TLC

(***************************************************************************)
(* Bounds of the model.                                                     *)
(***************************************************************************)
MaxCalls == 2      \* Receive calls issued on one Facade
MaxMsgs  == 2      \* messages ever put on the queue
MaxPolls == 2      \* ReceiveMessage calls of one polling unit
MaxBatch == 2      \* messages of one ReceiveMessage batch
CodecCalls == 1    \* Receive calls under SpecCodec
CodecMsgs  == 1    \* messages ever put on the queue under SpecCodec

Min(a, b) == IF a < b THEN a ELSE b

(***************************************************************************)
(* JSON values.  Every scalar is a record of one shape, so that any two can *)
(* be compared.  A number is hi * 2^53 + lo: TestData.Int is a 64-bit int   *)
(* and the only width that matters to the codec is the 53-bit mantissa of   *)
(* float64, which encoding/json uses for a number decoded into interface{}. *)
(***************************************************************************)
Str(x)    == [t |-> "string", s |-> x,  hi |-> 0, lo |-> 0, b |-> FALSE]
Num(h, l) == [t |-> "number", s |-> "", hi |-> h, lo |-> l, b |-> FALSE]
Bool(x)   == [t |-> "bool",   s |-> "", hi |-> 0, lo |-> 0, b |-> x]

\* float64(n) for an integer n = hi * 2^53 + lo with 0 <= lo < 2^53: exact
\* below 2^53; in [2^53, 2^54) the representable values are the even ones and
\* a tie goes to the even mantissa, that is to the multiple of 4.
ToFloat64(v) ==
    IF v.t = "number" /\ v.hi = 1 /\ v.lo % 2 = 1
    THEN Num(1, IF (v.lo - 1) % 4 = 0 THEN v.lo - 1 ELSE v.lo + 1)
    ELSE v

\* JSON text is modelled by its parse: the members of the object in the order
\* they are written, or text that is no JSON at all.
JsonText(members) == [json |-> TRUE, obj |-> members]
NotJson == [json |-> FALSE, obj |-> << >>]

(***************************************************************************)
(* Go values that travel in Notification.Data and Schema.Schema.            *)
(***************************************************************************)
ZeroTestData == [String |-> "", Int |-> [hi |-> 0, lo |-> 0], Bool |-> FALSE]
EmptyMap == [x \in {} |-> Str("")]

GoNil        == [k |-> "nil",    st |-> ZeroTestData, m |-> EmptyMap, ref |-> ""]
GoStruct(st) == [k |-> "struct", st |-> st,           m |-> EmptyMap, ref |-> ""]
GoPtr(st, r) == [k |-> "ptr",    st |-> st,           m |-> EmptyMap, ref |-> r]
GoPtrPtr(st) == [k |-> "ptrptr", st |-> st,           m |-> EmptyMap, ref |-> "new"]
GoMap(mm)    == [k |-> "map",    st |-> ZeroTestData, m |-> mm,       ref |-> ""]
GoChan       == [k |-> "chan",   st |-> ZeroTestData, m |-> EmptyMap, ref |-> ""]

\* type TestData struct { String string; Int int; Bool bool }
TestData(s, i, b) == [String |-> s, Int |-> i, Bool |-> b]

\* json.Marshal writes the keys of a map in sorted order.
SortedKeys == << "Bool", "Extra", "Int", "String" >>

\* json.Marshal of a struct: every exported field, in declaration order.
MarshalStruct(st) ==
    JsonText(<< << "String", Str(st.String) >>,
                << "Int", Num(st.Int.hi, st.Int.lo) >>,
                << "Bool", Bool(st.Bool) >> >>)

RECURSIVE MarshalMapFrom(_, _)
MarshalMapFrom(mm, i) ==
    IF i > Len(SortedKeys) THEN << >>
    ELSE IF SortedKeys[i] \in DOMAIN mm
         THEN << << SortedKeys[i], mm[SortedKeys[i]] >> >> \o MarshalMapFrom(mm, i + 1)
         ELSE MarshalMapFrom(mm, i + 1)

MarshalMap(mm) == JsonText(MarshalMapFrom(mm, 1))

\* json.Marshal(v interface{}): a channel is an unsupported type.
Marshal(v) ==
    CASE v.k \in {"struct", "ptr", "ptrptr"} -> [ok |-> TRUE, bytes |-> MarshalStruct(v.st)]
      [] v.k = "map"  -> [ok |-> TRUE, bytes |-> MarshalMap(v.m)]
      [] v.k = "chan" -> [ok |-> FALSE, bytes |-> NotJson]

\* json.Unmarshal into an interface{} that holds no pointer: the generic
\* decoding, map[string]interface{} with every number a float64; of a
\* repeated key the last member wins.
RECURSIVE UnmarshalGenericFrom(_, _)
UnmarshalGenericFrom(members, mm) ==
    IF members = << >> THEN mm
    ELSE LET key == Head(members)[1]
             val == ToFloat64(Head(members)[2])
         IN  UnmarshalGenericFrom(Tail(members),
                 [x \in DOMAIN mm \cup {key} |-> IF x = key THEN val ELSE mm[x]])

UnmarshalGeneric(bytes) ==
    IF bytes.json
    THEN [ok |-> TRUE, v |-> GoMap(UnmarshalGenericFrom(bytes.obj, EmptyMap))]
    ELSE [ok |-> FALSE, v |-> GoNil]

\* json.Unmarshal into a TestData that holds st: a member whose key names a
\* field sets it when the JSON type fits the field; a member of the wrong type
\* is skipped and reported at the end (UnmarshalTypeError); unknown keys are
\* ignored; fields that no member names keep the value they had.
SetField(st, key, val) ==
    CASE key = "String" /\ val.t = "string" -> [ok |-> TRUE, st |-> [st EXCEPT !.String = val.s]]
      [] key = "Int"    /\ val.t = "number" -> [ok |-> TRUE, st |-> [st EXCEPT !.Int = [hi |-> val.hi, lo |-> val.lo]]]
      [] key = "Bool"   /\ val.t = "bool"   -> [ok |-> TRUE, st |-> [st EXCEPT !.Bool = val.b]]
      [] key \in {"String", "Int", "Bool"}  -> [ok |-> FALSE, st |-> st]
      [] OTHER                              -> [ok |-> TRUE, st |-> st]

RECURSIVE UnmarshalStructFrom(_, _, _)
UnmarshalStructFrom(members, st, ok) ==
    IF members = << >> THEN [ok |-> ok, st |-> st]
    ELSE LET r == SetField(st, Head(members)[1], Head(members)[2])
         IN  UnmarshalStructFrom(Tail(members), r.st, ok /\ r.ok)

UnmarshalStruct(bytes, st) ==
    IF bytes.json THEN UnmarshalStructFrom(bytes.obj, st, TRUE)
    ELSE [ok |-> FALSE, st |-> st]

(***************************************************************************)
(* base64.StdEncoding and the string a JSON member can hold.                *)
(***************************************************************************)
EncodeToString(bytes) == [t |-> "string", b64 |-> TRUE, bytes |-> bytes]
PlainString           == [t |-> "string", b64 |-> FALSE, bytes |-> NotJson]
JsonNumber            == [t |-> "number", b64 |-> FALSE, bytes |-> NotJson]
JsonNull              == [t |-> "null",   b64 |-> FALSE, bytes |-> NotJson]

DecodeString(s) ==
    IF s.b64 THEN [ok |-> TRUE, bytes |-> s.bytes] ELSE [ok |-> FALSE, bytes |-> NotJson]

(***************************************************************************)
(* The wire envelope: json.Marshal of a Notification whose Data is the      *)
(* base64 string, and what other producers may put on the queue.            *)
(***************************************************************************)
Now == "now"     \* time.Now()

Envelope(time, type, version, payload) ==
    [json |-> TRUE, Time |-> time, Type |-> type, Version |-> version, Data |-> payload]
Malformed == [json |-> FALSE, Time |-> "", Type |-> "", Version |-> 0, Data |-> JsonNull]

ZeroNotification == [Time |-> "", Type |-> "", Version |-> 0, Data |-> GoNil]
NoSource == [Time |-> "", Type |-> "none", Version |-> 0, Data |-> GoNil]

(***************************************************************************)
(* State.                                                                   *)
(***************************************************************************)
VARIABLES
    impl,        \* "sync": part_001, "async": part_000
    Schemas,     \* Notifications.Schemas: type -> version -> Schema
    queue,       \* the queue behind the SQS interface: <<[Body, ReceiptHandle]>>
    nextHandle,  \* receipt handle of the next message put on the queue
    unit,        \* the polling units, one per Receive call
    caller,      \* the Receive calls
    ncalls,      \* Receive calls issued so far
    elapsed,     \* calls since whose start a whole Rate interval has passed
    ret,         \* what the last AddSchema or Send returned
    crashed      \* a panic has taken the process down

vars == << impl, Schemas, queue, nextHandle, unit, caller, ncalls, elapsed,
           ret, crashed >>

Calls == 1 .. MaxCalls

(***************************************************************************)
(* Schema registry.                                                         *)
(***************************************************************************)
Schema(type, version, exemplar) == [Type |-> type, Version |-> version, Schema |-> exemplar]

\* _, ok := n.Schemas[type][version]: indexing a missing (nil) inner map is
\* allowed and finds nothing.
HasSchema(reg, type, version) ==
    type \in DOMAIN reg /\ version \in DOMAIN reg[type]

PutSchema(reg, schema) ==
    LET inner == IF schema.Type \in DOMAIN reg THEN reg[schema.Type] ELSE << >>
        inner2 == [v \in DOMAIN inner \cup {schema.Version} |->
                      IF v = schema.Version THEN schema ELSE inner[v]]
    IN  [t \in DOMAIN reg \cup {schema.Type} |->
            IF t = schema.Type THEN inner2 ELSE reg[t]]

\* AddSchema without the check for an entry of the same type and version.
AddSchemaOverwriting(reg, schema) == [err |-> "", reg |-> PutSchema(reg, schema)]

AddSchemaResult(reg, schema) ==
    IF HasSchema(reg, schema.Type, schema.Version)
    THEN [err |-> "SchemaExists", reg |-> reg]
    ELSE [err |-> "", reg |-> PutSchema(reg, schema)]

AddSchema(schema) ==
    /\ ~crashed
    /\ LET r == AddSchemaResult(Schemas, schema)
       IN  /\ Schemas' = r.reg
           /\ ret' = [op |-> "AddSchema", err |-> r.err, gw |-> 0]
    /\ UNCHANGED << impl, queue, nextHandle, unit, caller, ncalls, elapsed, crashed >>

(***************************************************************************)
(* Send.                                                                    *)
(***************************************************************************)
\* sc := schema.Schema; json.Unmarshal(nd, &sc); json.Marshal(sc).
\* Unmarshal follows the interface to its value only when that value is a
\* pointer: then the exemplar's own pointee is filled; otherwise sc is
\* replaced by the generic decoding of nd.
ThroughExemplar(exemplar, nd) ==
    IF exemplar.k = "ptr"
    THEN LET r == UnmarshalStruct(nd, exemplar.st)
         IN  [ok |-> r.ok, exemplar |-> [exemplar EXCEPT !.st = r.st],
              sc |-> [exemplar EXCEPT !.st = r.st]]
    ELSE LET r == UnmarshalGeneric(nd)
         IN  [ok |-> r.ok, exemplar |-> exemplar, sc |-> r.v]

\* Encode without the return on a missing schema: the zero Schema has a nil
\* exemplar and the payload takes the generic path.
EncodeUnchecked(reg, notification) ==
    LET nd == Marshal(notification.Data)
    IN  IF ~nd.ok THEN [err |-> "Encoding", reg |-> reg, body |-> Malformed]
        ELSE [err |-> "", reg |-> reg,
              body |-> Envelope(Now, notification.Type, notification.Version,
                           EncodeToString(Marshal(UnmarshalGeneric(nd.bytes).v).bytes))]

\* The body Send hands to SendMessage, or the step that failed.
Encode(reg, notification) ==
    IF ~HasSchema(reg, notification.Type, notification.Version)
    THEN [err |-> "SchemaNotFound", reg |-> reg, body |-> Malformed]
    ELSE
    LET schema == reg[notification.Type][notification.Version]
        nd == Marshal(notification.Data)
    IN  IF ~nd.ok THEN [err |-> "Encoding", reg |-> reg, body |-> Malformed]
        ELSE
        LET x == ThroughExemplar(schema.Schema, nd.bytes)
            reg2 == PutSchema(reg, [schema EXCEPT !.Schema = x.exemplar])
        IN  IF ~x.ok THEN [err |-> "Encoding", reg |-> reg2, body |-> Malformed]
            ELSE
            LET scj == Marshal(x.sc)
            IN  IF ~scj.ok THEN [err |-> "Encoding", reg |-> reg2, body |-> Malformed]
                ELSE [err |-> "", reg |-> reg2,
                      body |-> Envelope(Now, notification.Type, notification.Version,
                                        EncodeToString(scj.bytes))]

\* SQS.SendMessage: the message joins the queue under a new receipt handle.
\* src remembers the Notification that Send was given (NoSource for the
\* message of another producer); no operation reads it.
SendMessage(q, body, handle, src) ==
    Append(q, [Body |-> body, ReceiptHandle |-> handle, src |-> src])

\* Send calling SendMessage a second time when the first call failed.
SendWithRetry(notification, gwOk) ==
    /\ ~crashed
    /\ LET e == Encode(Schemas, notification)
       IN  /\ Schemas' = e.reg
           /\ IF e.err # ""
              THEN /\ ret' = [op |-> "Send", err |-> e.err, gw |-> 0]
                   /\ UNCHANGED << queue, nextHandle >>
              ELSE /\ queue' = SendMessage(queue, e.body, nextHandle, notification)
                   /\ nextHandle' = nextHandle + 1
                   /\ ret' = [op |-> "Send", err |-> "", gw |-> IF gwOk THEN 1 ELSE 2]
    /\ UNCHANGED << impl, unit, caller, ncalls, elapsed, crashed >>

Send(notification, gwOk) ==
    /\ ~crashed
    /\ LET e == Encode(Schemas, notification)
       IN  /\ Schemas' = e.reg
           /\ IF e.err # ""
              THEN /\ ret' = [op |-> "Send", err |-> e.err, gw |-> 0]
                   /\ UNCHANGED << queue, nextHandle >>
              ELSE IF gwOk
                   THEN /\ queue' = SendMessage(queue, e.body, nextHandle, notification)
                        /\ nextHandle' = nextHandle + 1
                        /\ ret' = [op |-> "Send", err |-> "", gw |-> 1]
                   ELSE /\ ret' = [op |-> "Send", err |-> "Transport", gw |-> 1]
                        /\ UNCHANGED << queue, nextHandle >>
    /\ UNCHANGED << impl, unit, caller, ncalls, elapsed, crashed >>

\* Another producer puts a body of its own on the queue.
Produce(body) ==
    /\ ~crashed
    /\ queue' = SendMessage(queue, body, nextHandle, NoSource)
    /\ nextHandle' = nextHandle + 1
    /\ UNCHANGED << impl, Schemas, unit, caller, ncalls, elapsed, ret, crashed >>

(***************************************************************************)
(* Decoding one received message (the body of handle up to DeleteMessage;   *)
(* the same statements in both variants).                                   *)
(***************************************************************************)
Decode(reg, body) ==
    IF ~body.json
    THEN [out |-> "Unmarshal", n |-> ZeroNotification]
    ELSE IF ~HasSchema(reg, body.Type, body.Version)
    THEN [out |-> "SchemaNotFound", n |-> ZeroNotification]
    ELSE IF body.Data.t # "string"
    THEN [out |-> "panic", n |-> ZeroNotification]       \* notification.Data.(string)
    ELSE
    LET data == DecodeString(body.Data)
        exemplar == reg[body.Type][body.Version].Schema
    IN  IF ~data.ok THEN [out |-> "Base64", n |-> ZeroNotification]
        ELSE
        \* re := reflect.New(reflect.TypeOf(schema.Schema)).Interface()
        LET r == UnmarshalStruct(data.bytes, ZeroTestData)
            re == IF exemplar.k = "ptr" THEN GoPtrPtr(r.st) ELSE GoPtr(r.st, "new")
        IN  IF ~r.ok THEN [out |-> "UnmarshalData", n |-> ZeroNotification]
            ELSE [out |-> "ok",
                  n |-> [Time |-> body.Time, Type |-> body.Type,
                         Version |-> body.Version, Data |-> re]]

\* SQS.DeleteMessage
DeleteMessage(q, handle) == SelectSeq(q, LAMBDA m : m.ReceiptHandle # handle)

\* SQS.ReceiveMessage: up to MaxBatch consecutive messages of the queue, or
\* none at all.
Batches(q) ==
    {<< >>} \cup
    {SubSeq(q, i, Min(i + k - 1, Len(q))) : i \in 1 .. Len(q), k \in 1 .. MaxBatch}

(***************************************************************************)
(* Receive.                                                                 *)
(***************************************************************************)
\* h and src remember the message a value came from; no operation reads them.
NoValue == [kind |-> "none", err |-> "", n |-> ZeroNotification, h |-> 0, src |-> NoSource]
ErrorValue(e, handle) ==
    [kind |-> "error", err |-> e, n |-> ZeroNotification, h |-> handle, src |-> NoSource]
NotificationValue(n, message) ==
    [kind |-> "Notification", err |-> "", n |-> n, h |-> message.ReceiptHandle,
     src |-> message.src]

NoUnit ==
    [pc |-> "none", batch |-> << >>, i |-> 0, val |-> NoValue, polls |-> 0,
     since |-> 0, slept |-> FALSE, errPoll |-> 0, decs |-> << >>, dels |-> << >>,
     nres |-> 0]
\* empty, alone and mark remember how things were when Receive was called:
\* the queue empty, no other Receive waiting, and for an empty queue the
\* receipt handle the next message was to get; no operation reads them.
NoCaller ==
    [pc |-> "none", res |-> NoValue, out |-> ZeroNotification, empty |-> FALSE,
     alone |-> FALSE, mark |-> 0]

\* The caller of Receive gets a value: *notification is written for a
\* Notification only.
Returned(c, val) ==
    [pc |-> "returned", res |-> val,
     out |-> IF val.kind = "Notification" THEN val.n ELSE c.out,
     empty |-> c.empty, alone |-> c.alone, mark |-> c.mark]

\* What a polling unit does with a value (v is unit with the step's other
\* updates made).  part_001 returns it from receive to Receive and the unit
\* ends.  part_000 offers it on n.ch and, once it is taken, carries on.
Yield(v, u, val) ==
    IF impl = "sync"
    THEN /\ unit' = [v EXCEPT ![u].pc = "done", ![u].val = val, ![u].nres = @ + 1]
         /\ caller' = [caller EXCEPT ![u] = Returned(@, val)]
    ELSE /\ unit' = [v EXCEPT ![u].pc = "send", ![u].val = val, ![u].nres = @ + 1]
         /\ UNCHANGED caller

\* Receive is called: part_001 runs receive itself, part_000 starts it as a
\* goroutine and waits on n.ch.
Receive ==
    /\ ~crashed
    /\ ncalls' = ncalls + 1
    /\ caller' = [caller EXCEPT ![ncalls + 1] =
                      [NoCaller EXCEPT !.pc = "waiting", !.empty = (queue = << >>),
                                       !.alone = \A c \in Calls : caller[c].pc # "waiting",
                                       !.mark = IF queue = << >> THEN nextHandle
                                                                   ELSE 0]]
    /\ unit' = [unit EXCEPT ![ncalls + 1] =
                      [NoUnit EXCEPT !.pc = "sleep", !.since = ncalls + 1]]
    /\ UNCHANGED << impl, Schemas, queue, nextHandle, elapsed, ret, crashed >>

\* time.Sleep(n.Rate) ends: a whole Rate interval has passed since every call
\* that was issued before the sleep began.
Sleep(u) ==
    /\ ~crashed
    /\ unit[u].pc = "sleep"
    /\ unit' = [unit EXCEPT ![u].pc = "poll", ![u].slept = TRUE, ![u].since = 0]
    /\ elapsed' = elapsed \cup (1 .. unit[u].since)
    /\ UNCHANGED << impl, Schemas, queue, nextHandle, caller, ncalls, ret, crashed >>

\* n.SQS.ReceiveMessage fails.
PollError(u) ==
    /\ ~crashed
    /\ unit[u].pc = "poll"
    /\ unit[u].polls < MaxPolls
    /\ LET v == [unit EXCEPT ![u].polls = @ + 1, ![u].slept = FALSE,
                             ![u].errPoll = unit[u].polls + 1, ![u].batch = << >>,
                             ![u].i = 0]
           val == ErrorValue("Receive", 0)
       IN  Yield(v, u, val)
    /\ UNCHANGED << impl, Schemas, queue, nextHandle, ncalls, elapsed, ret, crashed >>

\* Poll with an empty batch sending the loop straight back to ReceiveMessage,
\* without the sleep.
PollWithoutWait(u, batch) ==
    /\ ~crashed
    /\ unit[u].pc = "poll"
    /\ unit[u].polls < MaxPolls
    /\ unit' = [unit EXCEPT ![u].polls = @ + 1, ![u].slept = FALSE,
                            ![u].batch = batch,
                            ![u].i = IF batch = << >> THEN 0 ELSE 1,
                            ![u].since = IF batch = << >> THEN ncalls ELSE 0,
                            ![u].pc = IF batch = << >> THEN "poll" ELSE "handle"]
    /\ UNCHANGED << impl, Schemas, queue, nextHandle, caller, ncalls, elapsed, ret,
                    crashed >>

\* n.SQS.ReceiveMessage returns a batch: an empty one sends the loop back to
\* its sleep, any other goes to handle.
Poll(u, batch) ==
    /\ ~crashed
    /\ unit[u].pc = "poll"
    /\ unit[u].polls < MaxPolls
    /\ unit' = [unit EXCEPT ![u].polls = @ + 1, ![u].slept = FALSE,
                            ![u].batch = batch,
                            ![u].i = IF batch = << >> THEN 0 ELSE 1,
                            ![u].since = IF batch = << >> THEN ncalls ELSE 0,
                            ![u].pc = IF batch = << >> THEN "sleep" ELSE "handle"]
    /\ UNCHANGED << impl, Schemas, queue, nextHandle, caller, ncalls, elapsed, ret,
                    crashed >>

\* handle yielding the decoded Notification whether or not DeleteMessage
\* failed.
HandleValueDespiteDelete(n, message, delOk) == NotificationValue(n, message)

\* The end of handle, after a message has been decoded: DeleteMessage was
\* called and its error, if any, is what handle yields.
HandleValue(n, message, delOk) ==
    IF delOk THEN NotificationValue(n, message)
    ELSE ErrorValue("Delete", message.ReceiptHandle)

\* handle on the message it is at: the first of the batch in part_001, each
\* of the batch in turn in part_000.
Handle(u, delOk) ==
    /\ ~crashed
    /\ unit[u].pc = "handle"
    /\ LET message == unit[u].batch[unit[u].i]
           d == Decode(Schemas, message.Body)
           dec == [poll |-> unit[u].polls, h |-> message.ReceiptHandle, out |-> d.out]
           del == [poll |-> unit[u].polls, h |-> message.ReceiptHandle, ok |-> delOk]
       IN  CASE d.out = "panic" ->
                  /\ crashed' = TRUE
                  /\ unit' = [unit EXCEPT ![u].pc = "panic", ![u].decs = Append(@, dec)]
                  /\ UNCHANGED << caller, queue >>
             [] d.out = "ok" ->
                  /\ queue' = IF delOk THEN DeleteMessage(queue, message.ReceiptHandle)
                                        ELSE queue
                  /\ LET v == [unit EXCEPT ![u].decs = Append(@, dec),
                                           ![u].dels = Append(@, del)]
                         val == HandleValue(d.n, message, delOk)
                     IN  Yield(v, u, val)
                  /\ UNCHANGED crashed
             [] OTHER ->
                  /\ LET v == [unit EXCEPT ![u].decs = Append(@, dec)]
                         val == ErrorValue(d.out, message.ReceiptHandle)
                     IN  Yield(v, u, val)
                  /\ UNCHANGED << queue, crashed >>
    /\ UNCHANGED << impl, Schemas, nextHandle, ncalls, elapsed, ret >>

\* part_000 only: a value offered on n.ch is taken by a waiting Receive; the
\* unit goes on with the next message of its batch, or back to its sleep.
Deliver(u, c) ==
    /\ ~crashed
    /\ impl = "async"
    /\ unit[u].pc = "send"
    /\ caller[c].pc = "waiting"
    /\ caller' = [caller EXCEPT ![c] = Returned(@, unit[u].val)]
    /\ unit' = IF unit[u].i >= 1 /\ unit[u].i < Len(unit[u].batch)
               THEN [unit EXCEPT ![u].pc = "handle", ![u].i = @ + 1]
               ELSE [unit EXCEPT ![u].pc = "sleep", ![u].since = ncalls]
    /\ UNCHANGED << impl, Schemas, queue, nextHandle, ncalls, elapsed, ret, crashed >>

(***************************************************************************)
(* The inputs the model draws from.                                         *)
(***************************************************************************)
TwoTo53Plus1 == [hi |-> 1, lo |-> 1]       \* 9007199254740993
One == [hi |-> 0, lo |-> 1]

ValueExemplar == GoStruct(ZeroTestData)            \* Schema: TestData{}
PtrExemplar   == GoPtr(ZeroTestData, "exemplar")   \* Schema: &TestData{}

Notification(type, version, data) ==
    [Time |-> "", Type |-> type, Version |-> version, Data |-> data]

\* The value of notify_test.go.
TestValue == GoStruct(TestData("string", One, TRUE))

Descriptors ==
    { Schema("testing", 1, ValueExemplar), Schema("testing", 1, PtrExemplar),
      Schema("testing", 2, ValueExemplar), Schema("other", 1, ValueExemplar) }

Payloads ==
    { TestValue,
      GoStruct(TestData("", TwoTo53Plus1, FALSE)),
      GoMap([x \in {"String", "Extra"} |-> IF x = "String" THEN Str("string") ELSE Num(0, 1)]),
      GoMap([x \in {"Int"} |-> Str("one")]),
      GoChan }

Notifications ==
    { Notification(k[1], k[2], d) :
        k \in { << "testing", 1 >>, << "testing", 2 >> }, d \in Payloads }

\* Bodies of other producers: no JSON; an envelope without a payload, with a
\* number for a payload, with a payload that is no base64, with a payload
\* that is base64 of no JSON; a well-formed envelope of ("testing", 2).
Bodies ==
    { Malformed,
      Envelope(Now, "testing", 1, JsonNull),
      Envelope(Now, "testing", 1, JsonNumber),
      Envelope(Now, "testing", 1, PlainString),
      Envelope(Now, "testing", 1, EncodeToString(NotJson)),
      Envelope(Now, "testing", 2, EncodeToString(MarshalStruct(TestValue.st))) }

\* The few of them that the specification of the receive loop draws from.
LoopDescriptors == { Schema("testing", 1, ValueExemplar) }
LoopNotifications == { Notification("testing", 1, TestValue) }
LoopBodies == { Malformed }

(***************************************************************************)
(* The specifications.                                                      *)
(***************************************************************************)
\* New: an empty registry, nothing received yet.
Init ==
    /\ impl \in {"sync", "async"}
    /\ Schemas = << >>
    /\ queue = << >>
    /\ nextHandle = 1
    /\ unit = [u \in Calls |-> NoUnit]
    /\ caller = [c \in Calls |-> NoCaller]
    /\ ncalls = 0
    /\ elapsed = {}
    /\ ret = [op |-> "New", err |-> "", gw |-> 0]
    /\ crashed = FALSE

Polling ==
    \/ \E u \in Calls : Sleep(u)
    \/ \E u \in Calls : PollError(u)
    \/ \E u \in Calls, batch \in Batches(queue) : Poll(u, batch)
    \/ \E u \in Calls, delOk \in BOOLEAN : Handle(u, delOk)
    \/ \E u \in Calls, c \in Calls : Deliver(u, c)

\* The receive loop under concurrent calls, with few kinds of message.
Next ==
    \/ \E schema \in LoopDescriptors : AddSchema(schema)
    \/ nextHandle <= MaxMsgs /\ \E n \in LoopNotifications, gwOk \in BOOLEAN : Send(n, gwOk)
    \/ nextHandle <= MaxMsgs /\ \E body \in LoopBodies : Produce(body)
    \/ ncalls < MaxCalls /\ Receive
    \/ Polling

Spec == Init /\ [][Next]_vars

\* The registry and the codec with every kind of schema, payload and body,
\* under few calls.
NextCodec ==
    \/ \E schema \in Descriptors : AddSchema(schema)
    \/ nextHandle <= CodecMsgs /\ \E n \in Notifications, gwOk \in BOOLEAN : Send(n, gwOk)
    \/ nextHandle <= CodecMsgs /\ \E body \in Bodies : Produce(body)
    \/ ncalls < CodecCalls /\ Receive
    \/ Polling

SpecCodec == Init /\ [][NextCodec]_vars

\* The sending side alone: registrations and sends, with the messages of
\* other producers, and no consumer.
NextProducer ==
    \/ \E schema \in Descriptors : AddSchema(schema)
    \/ nextHandle <= CodecMsgs /\ \E n \in Notifications, gwOk \in BOOLEAN : Send(n, gwOk)
    \/ nextHandle <= CodecMsgs /\ \E body \in Bodies : Produce(body)

SpecProducer == Init /\ [][NextProducer]_vars

\* The receive loop with the scheduling the Go runtime gives it: a sleep
\* ends, a call of the gateway returns, handle runs on, and a Receive that
\* waits on n.ch is served in its turn (the receivers of a channel queue up).
\* Nothing obliges the application to call Receive or Send, nor the gateway
\* to return a message.
NextFair ==
    \/ \E schema \in LoopDescriptors : AddSchema(schema)
    \/ nextHandle <= MaxMsgs /\ \E n \in LoopNotifications, gwOk \in BOOLEAN : Send(n, gwOk)
    \/ ncalls < MaxCalls /\ Receive
    \/ Polling

Fairness ==
    /\ \A u \in Calls : WF_vars(Sleep(u))
    /\ \A u \in Calls : WF_vars(PollError(u) \/ \E batch \in Batches(queue) : Poll(u, batch))
    /\ \A u \in Calls : WF_vars(\E delOk \in BOOLEAN : Handle(u, delOk))
    /\ \A c \in Calls : SF_vars(\E u \in Calls : Deliver(u, c))

SpecFair == Init /\ [][NextFair]_vars /\ Fairness

(***************************************************************************)
(* Properties.                                                              *)
(***************************************************************************)
\* The (type, version) pairs of a registry.
Keys(reg) == UNION { { << t, v >> : v \in DOMAIN reg[t] } : t \in DOMAIN reg }

Registered(type, version) == << type, version >> \in Keys(Schemas)

\* Every value a polling unit has produced and that is still to be seen: the
\* one it returned or offers, and the ones the callers hold.
Values == { unit[u].val : u \in Calls } \cup { caller[c].res : c \in Calls }

\* C1: the round-trip law.  A Notification decoded from the envelope that Send
\* made of a value of the exemplar's shape has the type and version that were
\* sent and data structurally equal to the value sent, in a new instance.
C1_RoundTrip ==
    \A val \in Values :
        (val.kind = "Notification" /\ val.src.Type # "none" /\ val.src.Data.k = "struct")
        => /\ val.n.Type = val.src.Type
           /\ val.n.Version = val.src.Version
           /\ val.n.Data.st = val.src.Data.st
           /\ val.n.Data.ref = "new"

\* C2: a message whose decoding failed has its error returned by Receive
\* (part_000: offered to or taken by a Receive) and DeleteMessage is not
\* called for it in that cycle.
C2_DecodeFailureKeepsMessage ==
    \A u \in Calls : \A k \in DOMAIN unit[u].decs :
        LET dec == unit[u].decs[k]
        IN  dec.out # "ok"
            => /\ \A j \in DOMAIN unit[u].dels :
                      ~(unit[u].dels[j].poll = dec.poll /\ unit[u].dels[j].h = dec.h)
               /\ IF impl = "sync"
                  THEN caller[u].pc = "returned" /\ caller[u].res = ErrorValue(dec.out, dec.h)
                  ELSE ErrorValue(dec.out, dec.h) \in Values

\* What every step of Send and of AddSchema shows, whatever else it does.
IsSend == ret'.op = "Send" /\ UNCHANGED << unit, caller, ncalls >>
IsAddSchema == ret'.op = "AddSchema" /\ UNCHANGED << unit, caller, ncalls, queue >>

\* C3: Send of a notification whose (type, version) is not registered returns
\* the schema-not-found error, does not call SendMessage and leaves the queue
\* as it was.
C3_SendWithoutSchema ==
    [][ IsSend => \A n \in Notifications, gwOk \in BOOLEAN :
          (~Registered(n.Type, n.Version) /\ Send(n, gwOk))
          => /\ ret'.err = "SchemaNotFound"
             /\ ret'.gw = 0
             /\ queue' = queue /\ nextHandle' = nextHandle ]_vars

\* C3 happens: a Send before any AddSchema was refused.
C3_Witness ==
    ret.op = "Send" /\ ret.err = "SchemaNotFound" /\ Schemas = << >>

\* C4: AddSchema of a (type, version) that is registered fails and leaves
\* the registry as it was; of any other it succeeds and adds that one entry,
\* every other entry staying as it was.
C4_AddSchemaOnce ==
    [][ IsAddSchema => \A d \in Descriptors :
          AddSchema(d)
          => IF Registered(d.Type, d.Version)
             THEN ret'.err = "SchemaExists" /\ Schemas' = Schemas
             ELSE /\ ret'.err = ""
                  /\ Keys(Schemas') = Keys(Schemas) \cup {<< d.Type, d.Version >>}
                  /\ Schemas'[d.Type][d.Version] = d
                  /\ \A k \in Keys(Schemas) : Schemas'[k[1]][k[2]] = Schemas[k[1]][k[2]]
      ]_vars

\* C4 happens: a second version of a type was added and a registered one
\* was refused.
C4_Witness ==
    /\ {<< "testing", 1 >>, << "testing", 2 >>} \subseteq Keys(Schemas)
    /\ ret.op = "AddSchema" /\ ret.err = "SchemaExists"

\* The DeleteMessage calls that unit u issued for handle h in its cycle p.
DeletesOf(u, p, h) ==
    { j \in DOMAIN unit[u].dels : unit[u].dels[j].poll = p /\ unit[u].dels[j].h = h }

\* C5: a Receive that returns a Notification for a message that Send made of
\* a value of the exemplar's shape returns the type, version and data that
\* were sent, and exactly one DeleteMessage, a successful one with the
\* receipt handle of that message, was issued in the cycle that decoded it.
C5_ReceivedAsSentDeletedOnce ==
    \A c \in Calls :
        LET val == caller[c].res
        IN  (caller[c].pc = "returned" /\ val.kind = "Notification"
                /\ val.src.Type # "none" /\ val.src.Data.k = "struct")
            => /\ val.n.Type = val.src.Type
               /\ val.n.Version = val.src.Version
               /\ val.n.Data.st = val.src.Data.st
               /\ \E u \in Calls, p \in 1 .. MaxPolls :
                     /\ impl = "sync" => u = c
                     /\ Cardinality(DeletesOf(u, p, val.h)) = 1
                     /\ \A j \in DeletesOf(u, p, val.h) : unit[u].dels[j].ok

\* Receive has been called by one caller at a time.
OneAtATime == \A c \in 1 .. ncalls : caller[c].alone

\* C6: the polling unit of a Receive call decodes at most one message, calls
\* DeleteMessage at most once and produces at most one result, exactly one
\* once the call has returned; stated for calls made one at a time.
C6_OneCyclePerCall ==
    OneAtATime => \A c \in Calls :
        /\ Len(unit[c].decs) <= 1
        /\ Len(unit[c].dels) <= 1
        /\ unit[c].nres <= 1
        /\ caller[c].pc = "returned" => unit[c].nres = 1

\* C7: a Receive call issued on an empty queue has not returned before a
\* whole Rate interval has passed since the call, and a unit that is about to
\* call ReceiveMessage has slept since its last ReceiveMessage; stated for
\* calls made one at a time.
C7_RateBeforeReturnAndPoll ==
    OneAtATime =>
        /\ \A c \in Calls : (caller[c].pc = "returned" /\ caller[c].empty) => c \in elapsed
        /\ \A u \in Calls : unit[u].pc = "poll" => unit[u].slept

\* C8: when DeleteMessage fails for a message that decoded, the queue keeps
\* what it held and what the unit yields is that error and no Notification
\* (part_001: Receive returns it in the same step); a value with that error
\* that a unit offers is taken as it is by one waiting Receive; and a Receive
\* that returns that error leaves *notification as it was.
C8_DeleteFailure ==
    [][ /\ \A u \in Calls :
             (Len(unit'[u].dels) > Len(unit[u].dels)
                 /\ ~unit'[u].dels[Len(unit'[u].dels)].ok)
             => /\ queue' = queue
                /\ unit'[u].val.kind = "error" /\ unit'[u].val.err = "Delete"
                /\ unit'[u].val.h = unit'[u].dels[Len(unit'[u].dels)].h
                /\ impl = "sync" => caller'[u].pc = "returned" /\ caller'[u].res = unit'[u].val
        /\ \A u \in Calls :
             (unit[u].pc = "send" /\ unit'[u].pc # "send" /\ unit[u].val.err = "Delete")
             => \E c \in Calls : /\ caller[c].pc = "waiting" /\ caller'[c].pc = "returned"
                                 /\ caller'[c].res = unit[u].val
        /\ \A c \in Calls :
             (caller[c].pc = "waiting" /\ caller'[c].pc = "returned"
                 /\ caller'[c].res.err = "Delete")
             => /\ caller'[c].res.kind = "error"
                /\ caller'[c].out = caller[c].out
      ]_vars

\* C8 happens: a Receive returned the error of a failed DeleteMessage and a
\* later Receive delivered the same message.
C8_Witness ==
    \E c, d \in Calls :
        /\ c < d
        /\ caller[c].pc = "returned" /\ caller[c].res.err = "Delete"
        /\ caller[d].pc = "returned" /\ caller[d].res.kind = "Notification"
        /\ caller[d].res.h = caller[c].res.h
        /\ caller[d].out = caller[d].res.n

\* C9: a unit whose ReceiveMessage failed has that error returned by Receive
\* (part_000: offered to or taken by a Receive) and calls ReceiveMessage no
\* more.
C9_TransportErrorEndsPolling ==
    \A u \in Calls :
        unit[u].errPoll # 0
        => /\ unit[u].polls = unit[u].errPoll
           /\ IF impl = "sync"
              THEN caller[u].pc = "returned" /\ caller[u].res = ErrorValue("Receive", 0)
              ELSE ErrorValue("Receive", 0) \in Values

\* C10: of the batch a unit is handling, no message but the first has been
\* decoded or had DeleteMessage called for it in this cycle.
C10_OnlyFirstOfBatch ==
    \A u \in Calls : \A k \in 2 .. Len(unit[u].batch) :
        LET h == unit[u].batch[k].ReceiptHandle
        IN  /\ \A j \in DOMAIN unit[u].decs :
                  ~(unit[u].decs[j].poll = unit[u].polls /\ unit[u].decs[j].h = h)
            /\ DeletesOf(u, unit[u].polls, h) = {}

\* The successful DeleteMessage calls for handle h, the Receive calls that
\* returned the Notification of h, and the units that offer it on n.ch.
Deleted(h) ==
    { << u, j >> \in Calls \X (1 .. MaxPolls * MaxBatch) :
        j \in DOMAIN unit[u].dels /\ unit[u].dels[j].h = h /\ unit[u].dels[j].ok }
ReturnedTo(h) ==
    { c \in Calls : caller[c].pc = "returned" /\ caller[c].res.kind = "Notification"
                    /\ caller[c].res.h = h }
Offering(h) ==
    { u \in Calls : unit[u].pc = "send" /\ unit[u].val.kind = "Notification"
                    /\ unit[u].val.h = h }

\* C11: each successful DeleteMessage has its Notification with exactly one
\* Receive call, none with two, and a Notification that no call has yet is
\* awaited by a Receive: no message is deleted while nobody is there to take
\* its Notification.
C11_DeletedReachesOneCaller ==
    \A h \in 1 .. MaxMsgs :
        /\ Cardinality(Deleted(h)) = Cardinality(ReturnedTo(h)) + Cardinality(Offering(h))
        /\ Offering(h) # {} => \E c \in Calls : caller[c].pc = "waiting"

\* C12: with Receive called by one caller at a time, at most one polling
\* unit is running, and the unit of a Receive call that has returned calls
\* ReceiveMessage and DeleteMessage no more.
C12_OneLoopActive ==
    [][ OneAtATime' =>
          /\ Cardinality({ u \in Calls :
                 unit'[u].pc \in {"sleep", "poll", "handle", "send"} }) <= 1
          /\ \A c \in Calls :
                caller[c].pc = "returned"
                => /\ unit'[c].polls = unit[c].polls
                   /\ unit'[c].dels = unit[c].dels
      ]_vars

\* C13: decoding a message ends in a Notification or in a returned error,
\* never in a crash: no panic takes the process down, so that Receive can be
\* called again.
C13_DecodingNeverCrashes ==
    /\ ~crashed
    /\ \A u \in Calls : \A k \in DOMAIN unit[u].decs :
          unit[u].decs[k].out \in
              {"ok", "Unmarshal", "SchemaNotFound", "Base64", "UnmarshalData"}

\* C14: the payload of every message that Send has put on the queue has no
\* member but the fields of the exemplar's shape, each of its field's type,
\* and was made of a value that can be coerced to that shape: of any other
\* value Send sends nothing.
C14_PayloadNormalized ==
    \A i \in DOMAIN queue :
        queue[i].src.Type # "none"
        => LET members == queue[i].Body.Data.bytes.obj
           IN  /\ \A k \in DOMAIN members :
                     /\ members[k][1] \in {"String", "Int", "Bool"}
                     /\ SetField(ZeroTestData, members[k][1], members[k][2]).ok
               /\ UnmarshalStruct(Marshal(queue[i].src.Data).bytes, ZeroTestData).ok

\* C15: a ReceiveMessage that returns an empty batch delivers nothing and
\* sends the unit to its sleep; a sleeping unit does nothing but end its
\* sleep and go to ReceiveMessage; and a Receive call returns only a value of
\* a unit whose ReceiveMessage failed or returned a message.
C15_EmptyBatchNoResult ==
    [][ /\ \A u \in Calls :
             (unit[u].pc = "poll" /\ unit'[u].polls = unit[u].polls + 1
                 /\ unit'[u].errPoll = unit[u].errPoll /\ unit'[u].batch = << >>)
             => /\ unit'[u].pc = "sleep"
                /\ unit'[u].nres = unit[u].nres
                /\ caller' = caller /\ queue' = queue
        /\ \A u \in Calls :
             (unit[u].pc = "sleep" /\ unit'[u] # unit[u])
             => /\ unit'[u].pc = "poll" /\ unit'[u].slept
                /\ unit'[u].polls = unit[u].polls
        /\ \A c \in Calls :
             (caller[c].pc = "waiting" /\ caller'[c].pc = "returned")
             => \E u \in Calls :
                   /\ impl = "sync" => u = c
                   /\ unit'[u].nres >= 1
                   /\ unit'[u].errPoll # 0 \/ unit'[u].decs # << >>
      ]_vars

\* C15 happens: a unit's first ReceiveMessage returned an empty batch, it
\* slept, its second returned a message, and a Receive call has returned.
C15_Witness ==
    \E u \in Calls :
        /\ unit[u].polls = 2 /\ unit[u].errPoll = 0 /\ unit[u].slept = FALSE
        /\ unit[u].nres = 1 /\ Len(unit[u].decs) = 1 /\ unit[u].decs[1].poll = 2
        /\ \E c \in Calls : caller[c].pc = "returned"

\* The ReceiveMessage of unit c has failed or returned a message.
Yields(c) == unit[c].errPoll # 0 \/ unit[c].decs # << >> \/ unit[c].pc = "handle"

\* C16: if the ReceiveMessage of every Receive call's unit at some time
\* fails or returns a message, every Receive call returns; and a Receive call
\* made on an empty queue returns only if a message was put on the queue
\* after the call or a ReceiveMessage has failed: against a queue that stays
\* empty and a gateway that never fails it never returns.
C16_ReturnsOnlyWhenGatewayYields ==
    /\ (\A c \in Calls : [](caller[c].pc = "waiting" => <>Yields(c)))
          => (\A c \in Calls : (caller[c].pc = "waiting") ~> (caller[c].pc = "returned"))
    /\ [](\A c \in Calls :
            (caller[c].pc = "returned" /\ caller[c].empty
                /\ \A u \in Calls : unit[u].errPoll = 0)
            => nextHandle > caller[c].mark)

\* C17: every step keeps every registered (type, version) with the
\* descriptor and exemplar it was registered with, and no step but one of
\* AddSchema changes the registry: Send and Receive leave it as it was.
C17_RegistryOnlyGrows ==
    [][ /\ \A k \in Keys(Schemas) :
              /\ k \in Keys(Schemas')
              /\ Schemas'[k[1]][k[2]] = Schemas[k[1]][k[2]]
        /\ Schemas' # Schemas => IsAddSchema
      ]_vars

\* C18: a Send calls SendMessage at most once, and only for a registered
\* (type, version) and a payload that json.Marshal accepts; a Send that fails
\* before SendMessage has not called it and leaves the queue as it was; a
\* Send whose SendMessage fails returns that error after the one call, with
\* nothing on the queue; a Send that succeeds has put its one message there.
C18_SendsAtMostOnce ==
    [][ IsSend => \A n \in Notifications, gwOk \in BOOLEAN :
          Send(n, gwOk)
          => /\ ret'.gw <= 1
             /\ ret'.gw = 1 => /\ Registered(n.Type, n.Version)
                               /\ Marshal(n.Data).ok
                               /\ ret'.err = IF gwOk THEN "" ELSE "Transport"
             /\ ret'.gw = 0 => /\ ret'.err \in {"SchemaNotFound", "Encoding"}
                               /\ queue' = queue /\ nextHandle' = nextHandle
             /\ ~Marshal(n.Data).ok => ret'.gw = 0
             /\ ret'.err = "Transport" => queue' = queue /\ nextHandle' = nextHandle
             /\ ret'.err = "" => /\ Len(queue') = Len(queue) + 1
                                 /\ queue'[Len(queue')].src = n
                                 /\ SubSeq(queue', 1, Len(queue)) = queue
      ]_vars

\* C18 happens: SendMessage failed for a registered (type, version), its
\* error was returned after one call and nothing is on the queue.
C18_Witness ==
    /\ ret.op = "Send" /\ ret.err = "Transport" /\ ret.gw = 1
    /\ Keys(Schemas) # {} /\ queue = << >>

====
